---- MODULE Spec2Model ----
(***************************************************************************)
(* Model of the staged generation pipeline of the book writer web          *)
(* application (src/web_app.py): the outline parser, the outline           *)
(* operations that persist chapter records, and the streaming endpoints.   *)
(*                                                                         *)
(* Text is a sequence of tokens.  A token stands for one character, or for *)
(* one fixed run of characters none of which is whitespace, a digit or a   *)
(* colon ("Chapter", "OUTLINE", "END OF" and the like), so that every      *)
(* index the code computes falls on a token boundary.  BigDigits stands    *)
(* for one run of MaxStrDigits + 1 decimal digits.                         *)
(***************************************************************************)
EXTENDS Integers, Sequences, FiniteSets, TLC

VARIABLES
    arg_text,       \* parse_outline_to_chapters: the outline_content argument
    arg_num,        \* parse_outline_to_chapters: the num_chapters argument
    ret,            \* parse_outline_to_chapters: the returned list
    pc_parse,       \* "input" while the argument is built, "returned" after the call
    nsegs,          \* the number of segments arg_text is made of
    files,          \* book_output/: world.txt, characters.txt, outline.txt,
                    \* chapters.json, outline.json, chapters/chapter_<n>.txt
    session,        \* the Flask session (cookie) of the one client
    req,            \* the streaming request in flight, if any
    last_outline,   \* the last completed outline operation, its declared count
                    \* and the chapter records it produced
    nreq,           \* the number of requests served so far
    nchunks,        \* the number of chunks the upstream streams delivered so far
    agent,          \* a BookAgents object: whether create_agents has run, and
                    \* the method call made on it
    last_chapter    \* the last request to /chapter/<n>: what it was and what it did

vars == <<arg_text, arg_num, ret, pc_parse, nsegs, files, session, req,
          last_outline, nreq, nchunks, agent, last_chapter>>

parse_vars == <<arg_text, arg_num, ret, pc_parse, nsegs>>
app_vars == <<session, req, last_outline, nreq, nchunks, last_chapter>>

----------------------------------------------------------------------------
(* Bounds of the model *)

MaxSegs == 3            \* segments in a parser input text
MaxDeclared == 2        \* largest declared chapter count
MaxChunks == 2          \* chunks the upstream streams deliver in one behaviour
MaxRequests == 2        \* requests served in one behaviour
MaxPieces == 3          \* pieces in a response of the model
MaxHistory == 2         \* entries in a chat history
MaxChapterNumber == 3   \* the largest <n> of /chapter/<n> and /save_chapter/<n>

----------------------------------------------------------------------------
(* Characters and strings *)

\* a file of book_output/: os.path.exists(...) and what read() returns
NoFile == [exists |-> FALSE, content |-> <<>>]
File(content) == [exists |-> TRUE, content |-> content]

SP == " "
NL == "\n"
CR == "\r"
Digits == {"0", "1", "2", "3", "4", "5", "6", "7", "8", "9"}
BigDigits == "9{4301}"

\* CPython's limit on int(str): sys.int_info.default_max_str_digits.
\* int() of a longer digit string raises ValueError.
MaxStrDigits == 4300

\* the number of characters of the previous chapter given to the writer
ContextChars == 1000

\* regex \s
IsSpace(c) == c \in {SP, NL, CR}

\* regex \d
IsDigit(c) == c \in Digits \cup {BigDigits}

\* the number of characters of a digit token
DigitLen(c) == IF c = BigDigits THEN MaxStrDigits + 1 ELSE 1

DigitVal(c) ==
    CASE c = "0" -> 0 [] c = "1" -> 1 [] c = "2" -> 2 [] c = "3" -> 3
      [] c = "4" -> 4 [] c = "5" -> 5 [] c = "6" -> 6 [] c = "7" -> 7
      [] c = "8" -> 8 [] c = "9" -> 9

DigitChar(d) ==
    CASE d = 0 -> "0" [] d = 1 -> "1" [] d = 2 -> "2" [] d = 3 -> "3"
      [] d = 4 -> "4" [] d = 5 -> "5" [] d = 6 -> "6" [] d = 7 -> "7"
      [] d = 8 -> "8" [] d = 9 -> "9"

\* s[a:b] for 0 <= a, 0 <= b
Slice(s, a, b) == SubSeq(s, a + 1, IF b < Len(s) THEN b ELSE Len(s))

\* s[a:]
SliceFrom(s, a) == SubSeq(s, a + 1, Len(s))

\* pat occurs in s at offset i (0-based)
OccursAt(s, pat, i) ==
    /\ i + Len(pat) <= Len(s)
    /\ \A k \in 1..Len(pat) : s[i + k] = pat[k]

\* str.find: the lowest offset of pat in s, -1 when there is none
find(s, pat) ==
    IF \E i \in 0..Len(s) : OccursAt(s, pat, i)
    THEN CHOOSE i \in 0..Len(s) :
            /\ OccursAt(s, pat, i)
            /\ \A j \in 0..(i - 1) : ~OccursAt(s, pat, j)
    ELSE -1

RECURSIVE lstrip(_)
lstrip(s) == IF s = <<>> \/ ~IsSpace(Head(s)) THEN s ELSE lstrip(Tail(s))

RECURSIVE rstrip(_)
rstrip(s) ==
    IF s = <<>> \/ ~IsSpace(s[Len(s)]) THEN s ELSE rstrip(SubSeq(s, 1, Len(s) - 1))

\* str.strip()
strip(s) == rstrip(lstrip(s))

\* the offset just after the run of whitespace that starts at offset i
RECURSIVE SpaceRunEnd(_, _)
SpaceRunEnd(s, i) ==
    IF i < Len(s) /\ IsSpace(s[i + 1]) THEN SpaceRunEnd(s, i + 1) ELSE i

\* the offset just after the run of digits that starts at offset i
RECURSIVE DigitRunEnd(_, _)
DigitRunEnd(s, i) ==
    IF i < Len(s) /\ IsDigit(s[i + 1]) THEN DigitRunEnd(s, i + 1) ELSE i

\* the offset just after the run of non-newline characters that starts at i
RECURSIVE LineEnd(_, _)
LineEnd(s, i) ==
    IF i < Len(s) /\ s[i + 1] # NL THEN LineEnd(s, i + 1) ELSE i

\* int(str) of a digit string
RECURSIVE int(_)
int(ds) ==
    IF ds = <<>> THEN 0
    ELSE 10 * int(SubSeq(ds, 1, Len(ds) - 1)) + DigitVal(ds[Len(ds)])

RECURSIVE StrLen(_)
StrLen(ds) == IF ds = <<>> THEN 0 ELSE DigitLen(Head(ds)) + StrLen(Tail(ds))

\* int(str) raises ValueError: the string is longer than the limit
IntRaises(ds) == StrLen(ds) > MaxStrDigits

\* str(int) for a natural number
RECURSIVE str(_)
str(n) == IF n < 10 THEN <<DigitChar(n)>> ELSE str(n \div 10) \o <<DigitChar(n % 10)>>

\* '\n'.join(s.split('\n')[1:]) if s has more than one line, else ""
AfterFirstLine(s) ==
    LET e == LineEnd(s, 0) IN IF e < Len(s) THEN SliceFrom(s, e + 1) ELSE <<>>

----------------------------------------------------------------------------
(* Regular expressions of parse_outline_to_chapters *)

NoMatch == [start |-> -1]

\* r'Chapter\s+(\d+):' matched at offset i
PrefixMatch(s, i, b, c) ==
    IF b > i + 1 /\ c > b /\ c < Len(s) /\ s[c + 1] = ":"
    THEN [start |-> i, end |-> c + 1, group1 |-> Slice(s, b, c)]
    ELSE NoMatch

PrefixMatchAt(s, i) ==
    IF i < Len(s) /\ s[i + 1] = "Chapter"
    THEN PrefixMatch(s, i, SpaceRunEnd(s, i + 1), DigitRunEnd(s, SpaceRunEnd(s, i + 1)))
    ELSE NoMatch

\* r'\s+([^\n]+)' matched at offset d, where the whitespace run ends at
\* offset e: the offset group 2 starts at, -1 when there is no match.  \s+
\* is greedy and gives characters back until [^\n]+ finds a character that
\* is no newline.
TitleStart(s, d, e) ==
    IF e = d THEN -1
    ELSE IF e < Len(s) THEN e
    ELSE IF \E q \in (d + 1)..(e - 1) : s[q + 1] # NL
         THEN CHOOSE q \in (d + 1)..(e - 1) :
                 /\ s[q + 1] # NL
                 /\ \A r \in (q + 1)..(e - 1) : s[r + 1] = NL
         ELSE -1

\* the match of r'Chapter\s+(\d+):\s+([^\n]+)' whose prefix match is p and
\* whose group 2 starts at offset t
HeaderMatch(s, p, t) ==
    IF t = -1 THEN NoMatch
    ELSE [start |-> p.start, end |-> LineEnd(s, t), group1 |-> p.group1,
          group2 |-> Slice(s, t, LineEnd(s, t))]

\* r'Chapter\s+(\d+):\s+([^\n]+)' matched at offset i
HeaderMatchAt(s, i) ==
    IF PrefixMatchAt(s, i) = NoMatch THEN NoMatch
    ELSE HeaderMatch(s, PrefixMatchAt(s, i),
             TitleStart(s, PrefixMatchAt(s, i).end,
                        SpaceRunEnd(s, PrefixMatchAt(s, i).end)))

\* re.finditer(r'Chapter\s+(\d+):\s+([^\n]+)', s): the matches from offset pos on
RECURSIVE finditer(_, _)
finditer(s, pos) ==
    IF pos >= Len(s) THEN <<>>
    ELSE IF HeaderMatchAt(s, pos) # NoMatch
         THEN <<HeaderMatchAt(s, pos)>> \o finditer(s, HeaderMatchAt(s, pos).end)
         ELSE finditer(s, pos + 1)

\* re.search(r'Chapter\s+(\d+):', s[pos:]): the offset in s of the first match
\* at or after pos, -1 when there is none
RECURSIVE search(_, _)
search(s, pos) ==
    IF pos >= Len(s) THEN -1
    ELSE IF PrefixMatchAt(s, pos) # NoMatch THEN pos ELSE search(s, pos + 1)

----------------------------------------------------------------------------
(* parse_outline_to_chapters *)

\* DefaultChapters with the stubs numbered from 0, as range(num_chapters) would
DefaultChapters_FromZero(num_chapters) ==
    [i \in 1..num_chapters |->
        [chapter_number |-> i - 1,
         title |-> <<"Chapter", SP>> \o str(i - 1),
         prompt |-> <<"Content", SP, "for", SP, "chapter", SP>> \o str(i - 1)]]

\* the stub records both fallback loops append: range(1, num_chapters + 1)
DefaultChapters(num_chapters) ==
    [i \in 1..num_chapters |->
        [chapter_number |-> i,
         title |-> <<"Chapter", SP>> \o str(i),
         prompt |-> <<"Content", SP, "for", SP, "chapter", SP>> \o str(i)]]

\* the text the headers are searched in
OutlineText(outline_content) ==
    LET start_idx == find(outline_content, <<"OUTLINE", ":">>)
        end_idx == find(outline_content, <<"END OF", SP, "OUTLINE">>)
    IN  IF start_idx # -1 /\ end_idx # -1
        THEN strip(Slice(outline_content, start_idx + 2, end_idx))
        ELSE outline_content

\* the prompt of the chapter whose header match starts at start_pos
ChapterDescription(outline_text, start_pos) ==
    LET end_pos == search(outline_text, start_pos + 1)
        chapter_content ==
            IF end_pos # -1
            THEN strip(Slice(outline_text, start_pos, end_pos))
            ELSE strip(SliceFrom(outline_text, start_pos))
    IN  AfterFirstLine(chapter_content)

\* the for loop over the matches: chapters and seen_chapters when it ends,
\* or when int() raises
RECURSIVE ChapterLoop(_, _, _, _)
ChapterLoop(outline_text, matches, chapters, seen_chapters) ==
    IF matches = <<>> THEN [raised |-> FALSE, chapters |-> chapters]
    ELSE LET match == Head(matches) IN
         IF IntRaises(match.group1) THEN [raised |-> TRUE, chapters |-> chapters]
         ELSE LET chapter_num == int(match.group1) IN
              IF chapter_num \in seen_chapters
              THEN ChapterLoop(outline_text, Tail(matches), chapters, seen_chapters)
              ELSE ChapterLoop(outline_text, Tail(matches),
                       Append(chapters,
                           [chapter_number |-> chapter_num,
                            title |-> strip(match.group2),
                            prompt |-> ChapterDescription(outline_text, match.start)]),
                       seen_chapters \cup {chapter_num})

\* list.insert into a list sorted by chapter_number, after the records
\* with the same number
RECURSIVE InsertSorted(_, _)
InsertSorted(sorted, x) ==
    IF sorted = <<>> THEN <<x>>
    ELSE IF x.chapter_number < Head(sorted).chapter_number THEN <<x>> \o sorted
    ELSE <<Head(sorted)>> \o InsertSorted(Tail(sorted), x)

\* chapters.sort(key=lambda x: x['chapter_number']): a stable sort
RECURSIVE SortChapters(_)
SortChapters(chapters) ==
    IF chapters = <<>> THEN <<>>
    ELSE InsertSorted(SortChapters(SubSeq(chapters, 1, Len(chapters) - 1)),
                      chapters[Len(chapters)])

\* after the loop: the except branch when it raised, else the sort and the
\* fallback for an empty list
AfterLoop(loop, num_chapters) ==
    IF loop.raised
    THEN loop.chapters \o DefaultChapters(num_chapters)
    ELSE IF loop.chapters = <<>>
         THEN DefaultChapters(num_chapters)
         ELSE SortChapters(loop.chapters)

\* the try block from re.finditer on
ParseText(outline_text, num_chapters) ==
    AfterLoop(ChapterLoop(outline_text, finditer(outline_text, 0), <<>>, {}),
              num_chapters)

\* the list parse_outline_to_chapters returns (and dumps to chapters.json)
parse_outline_to_chapters(outline_content, num_chapters) ==
    ParseText(OutlineText(outline_content), num_chapters)

----------------------------------------------------------------------------
(* BookAgents (src/agents.py): the prompt catalog, the requests the methods *)
(* build, and the clean-up generate_content applies to the response         *)

\* the keys of self.system_prompts once create_agents has run
CatalogKeys ==
    {"memory_keeper", "character_generator", "story_planner", "outline_creator",
     "world_builder", "writer", "editor", "world_builder_chat",
     "outline_creator_chat"}

\* the text of self.system_prompts[key]
SystemPrompt(key) == <<"system prompt of", SP, key>>

Message(role, content) == [role |-> role, content |-> content]

\* pat in s
Contains(s, pat) == find(s, pat) # -1

\* s[a:b] for 0 <= a and any b >= 0: empty when b <= a
PySlice(s, a, b) == IF b <= a THEN <<>> ELSE Slice(s, a, b)

OutlineStart == <<"OUTLINE", ":">>
OutlineEnd == <<"END OF", SP, "OUTLINE">>
SceneFinal == <<"SCENE FINAL", ":">>
WorldElements == <<"WORLD_ELEMENTS", ":">>
StoryArc == <<"STORY_ARC", ":">>
CharacterProfiles == <<"CHARACTER_PROFILES", ":">>

\* response.split(sep)[1], for a response that holds sep
SplitSecond(response, sep) ==
    IF Contains(SliceFrom(response, find(response, sep) + Len(sep)), sep)
    THEN Slice(SliceFrom(response, find(response, sep) + Len(sep)), 0,
               find(SliceFrom(response, find(response, sep) + Len(sep)), sep))
    ELSE SliceFrom(response, find(response, sep) + Len(sep))

\* FromMarker with the text before the marker dropped and no strip()
FromMarker_Unstripped(response, marker) ==
    IF find(response, marker) # -1
    THEN SliceFrom(response, find(response, marker))
    ELSE response

\* response[start:].strip() when the marker is found, else the response
FromMarker(response, marker) ==
    IF find(response, marker) # -1
    THEN strip(SliceFrom(response, find(response, marker)))
    ELSE response

\* generate_content: what is returned for the response of the model
CleanResponse(agent_name, response) ==
    CASE agent_name = "outline_creator" ->
            IF find(response, OutlineStart) # -1 /\ find(response, OutlineEnd) # -1
            THEN PySlice(response, find(response, OutlineStart),
                         find(response, OutlineEnd) + Len(OutlineEnd))
            ELSE response
      [] agent_name = "writer" ->
            IF Contains(response, SceneFinal)
            THEN strip(SplitSecond(response, SceneFinal))
            ELSE response
      [] agent_name = "world_builder" -> FromMarker(response, WorldElements)
      [] agent_name = "story_planner" -> FromMarker(response, StoryArc)
      [] agent_name = "character_generator" -> FromMarker(response, CharacterProfiles)
      [] OTHER -> response

\* the history entries as the chat methods copy them into the request
RECURSIVE HistoryMessages(_)
HistoryMessages(chat_history) ==
    IF chat_history = <<>> THEN <<>>
    ELSE <<Message(IF Head(chat_history).role = "user" THEN "user" ELSE "assistant",
                   Head(chat_history).content)>>
         \o HistoryMessages(Tail(chat_history))

WorldContext(world_theme) ==
    <<"The book takes place in the following world:", NL, NL>> \o world_theme

WorldAndCharactersContext(world_theme, characters) ==
    WorldContext(world_theme)
    \o <<NL, NL, "The characters include:", NL, NL>> \o characters

\* the messages of the request each chat method sends
ChatMessages(method, chat_history, world_theme, characters, user_message) ==
    CASE method = "generate_chat_response" ->
            <<Message("system", SystemPrompt("world_builder_chat"))>>
            \o HistoryMessages(chat_history)
      [] method = "generate_chat_response_stream" ->
            <<Message("system", SystemPrompt("world_builder_chat"))>>
            \o HistoryMessages(chat_history)
            \o <<Message("user", user_message)>>
      [] method \in {"generate_chat_response_characters",
                     "generate_chat_response_characters_stream"} ->
            <<Message("system", SystemPrompt("character_generator")),
              Message("system", WorldContext(world_theme))>>
            \o HistoryMessages(chat_history)
            \o <<Message("user", user_message)>>
      [] method \in {"generate_chat_response_outline",
                     "generate_chat_response_outline_stream"} ->
            <<Message("system", SystemPrompt("outline_creator_chat")),
              Message("system", WorldAndCharactersContext(world_theme, characters))>>
            \o HistoryMessages(chat_history)
            \o <<Message("user", user_message)>>

ChatMethods ==
    {"generate_chat_response", "generate_chat_response_stream",
     "generate_chat_response_characters", "generate_chat_response_characters_stream",
     "generate_chat_response_outline", "generate_chat_response_outline_stream"}

\* a BookAgents object after __init__: self.system_prompts is not assigned yet
NewAgents ==
    [has_system_prompts |-> FALSE, pc |-> "ready", method |-> "none",
     agent_name |-> "none", chat_history |-> <<>>, user_message |-> <<>>,
     messages |-> <<>>, dispatched |-> 0, response |-> <<>>, result |-> <<>>,
     outcome |-> "none"]

----------------------------------------------------------------------------
(* The parser on its own: an input text is put together from segments and  *)
(* parse_outline_to_chapters is called on it.                               *)

Header(k, t) == <<"Chapter", SP, k, ":", SP, t, NL>>

Segments ==
    { Header("1", "a"), Header("1", "b"), Header("3", "c"),
      Header(BigDigits, "c"),
      <<"Chapter", SP, "2", ":", NL>>,
      <<"x", NL>>,
      <<"OUTLINE", ":", NL>>,
      <<"END OF", SP, "OUTLINE">>,
      <<":">> }

NoFiles ==
    [world_txt |-> NoFile, characters_txt |-> NoFile, outline_txt |-> NoFile,
     chapters_json |-> NoFile, outline_json |-> NoFile,
     chapter_txt |-> [n \in 0..MaxChapterNumber |-> NoFile]]

EmptySession ==
    [world_theme |-> <<>>, characters |-> <<>>, outline |-> <<>>, chapters |-> <<>>]

Idle ==
    [pc |-> "idle", endpoint |-> "none", num_chapters |-> 0, upstream |-> <<>>,
     collected_content |-> <<>>, sent |-> <<>>, at_yield |-> FALSE,
     files_at_start |-> NoFiles]

NoOutlineOp == [op |-> "none", num_chapters |-> 0, chapters |-> <<>>]

NoChapterRequest ==
    [method |-> "none", chapter_number |-> 0, outcome |-> "none", dispatched |-> 0,
     prompt |-> <<>>, files_before |-> NoFiles]

InitParse ==
    /\ arg_text = <<>>
    /\ arg_num = 0
    /\ ret = <<>>
    /\ pc_parse = "input"
    /\ nsegs = 0
    /\ files = NoFiles
    /\ session = EmptySession
    /\ req = Idle
    /\ last_outline = NoOutlineOp
    /\ nreq = 0
    /\ nchunks = 0
    /\ agent = NewAgents
    /\ last_chapter = NoChapterRequest

AppendSegment ==
    /\ pc_parse = "input"
    /\ nsegs < MaxSegs
    /\ \E seg \in Segments : arg_text' = arg_text \o seg
    /\ nsegs' = nsegs + 1
    /\ UNCHANGED <<arg_num, ret, pc_parse, files>>
    /\ UNCHANGED app_vars
    /\ UNCHANGED agent

\* a call parse_outline_to_chapters(arg_text, n): the list it returns, and
\* the chapters.json it writes before it returns
CallParse ==
    /\ pc_parse = "input"
    /\ \E n \in 0..MaxDeclared :
       \E chapters \in {parse_outline_to_chapters(arg_text, n)} :
          /\ arg_num' = n
          /\ ret' = chapters
          /\ files' = [files EXCEPT !.chapters_json = File(chapters)]
    /\ pc_parse' = "returned"
    /\ UNCHANGED <<arg_text, nsegs>>
    /\ UNCHANGED app_vars
    /\ UNCHANGED agent

NextParse == AppendSegment \/ CallParse

SpecParse == InitParse /\ [][NextParse]_vars

----------------------------------------------------------------------------
(* Normalisation of texts before they are saved *)

\* s.replace('\r\n', '\n')
RECURSIVE replace_crlf(_)
replace_crlf(s) ==
    IF s = <<>> THEN <<>>
    ELSE IF Len(s) >= 2 /\ s[1] = CR /\ s[2] = NL
         THEN <<NL>> \o replace_crlf(SliceFrom(s, 2))
         ELSE <<Head(s)>> \o replace_crlf(Tail(s))

\* the offset just after the run of newlines that starts at offset i
RECURSIVE NewlineRunEnd(_, _)
NewlineRunEnd(s, i) ==
    IF i < Len(s) /\ s[i + 1] = NL THEN NewlineRunEnd(s, i + 1) ELSE i

\* re.sub(r'\n{least,}', repl, s)
RECURSIVE sub_newlines(_, _, _)
sub_newlines(s, least, repl) ==
    IF s = <<>> THEN <<>>
    ELSE LET e == NewlineRunEnd(s, 0) IN
         IF e >= least
         THEN repl \o sub_newlines(SliceFrom(s, e), least, repl)
         ELSE <<Head(s)>> \o sub_newlines(Tail(s), least, repl)

\* ''.join(parts)
RECURSIVE join(_)
join(parts) == IF parts = <<>> THEN <<>> ELSE Head(parts) \o join(Tail(parts))

\* finalize_world_stream: the world theme saved from the collected content
WorldThemeOf(complete_content) == sub_newlines(strip(complete_content), 1, <<NL>>)

\* finalize_characters_stream: the characters saved from the collected content
CharactersOf(complete_content) == strip(complete_content)

\* finalize_outline_stream: the outline saved from the collected content
OutlineOf(complete_content) == strip(complete_content)

\* save_world: the world theme saved from the form field
SavedWorldTheme(world_theme) ==
    LET stripped == strip(sub_newlines(replace_crlf(world_theme), 2, <<NL, NL>>))
    IN  sub_newlines(strip(stripped), 1, <<NL>>)

\* save_characters, save_outline: the text saved from the form field
SavedText(content) == strip(sub_newlines(replace_crlf(content), 2, <<NL, NL>>))

----------------------------------------------------------------------------
(* The web application: requests of one client, one at a time *)

\* what the project directory holds when the application starts
InitialFiles ==
    { NoFiles,
      [NoFiles EXCEPT !.world_txt = File(<<"a">>),
                      !.characters_txt = File(<<"b">>)] }

\* form fields and upstream deltas
WorldInputs == { <<>>, <<"a", NL, NL, NL, "a">> }
CharacterInputs == { <<"b">> }
OutlineInputs ==
    { <<"Chapter", SP, "3", ":", SP, "c", CR, NL, NL, NL,
        "Chapter", SP, "1", ":", SP, "a">>,
      <<"x">> }
Deltas ==
    { <<>>, <<NL>>,
      <<SP, "Chapter", SP, "2", ":", SP, "b", NL, NL, NL, "x", NL>> }

\* a chunk of the upstream stream: no choices, a delta without content, or a
\* delta with content
\* (has_content: chunk.choices[0].delta.content is not None)
Chunks ==
    { [choices |-> TRUE, has_content |-> FALSE, content |-> <<>>] }
    \cup { [choices |-> TRUE, has_content |-> TRUE, content |-> d] : d \in Deltas }

ChatEndpoints == {"world_chat_stream", "characters_chat_stream", "outline_chat_stream"}
FinalizeEndpoints ==
    {"finalize_world_stream", "finalize_characters_stream", "finalize_outline_stream"}

Heartbeat == <<>>           \* the content of the event  data: {"content": ""}
Done == <<"[DONE]">>        \* the content of the completion marker

Init ==
    /\ arg_text = <<>>
    /\ arg_num = 0
    /\ ret = <<>>
    /\ pc_parse = "input"
    /\ nsegs = 0
    /\ files \in InitialFiles
    /\ session = EmptySession
    /\ req = Idle
    /\ last_outline = NoOutlineOp
    /\ nreq = 0
    /\ nchunks = 0
    /\ agent = NewAgents
    /\ last_chapter = NoChapterRequest

\* a request is accepted: none is being served
Accept ==
    /\ req.pc = "idle"
    /\ nreq < MaxRequests
    /\ nreq' = nreq + 1
    /\ UNCHANGED nchunks
    /\ UNCHANGED parse_vars
    /\ UNCHANGED agent

\* the generator of a streaming response is created, not yet started
Streaming(endpoint, num_chapters) ==
    [Idle EXCEPT !.pc = "start", !.endpoint = endpoint,
                 !.num_chapters = num_chapters, !.files_at_start = files]

\* save_world writing the project anew: the world theme and nothing else
save_world_Reset ==
    /\ Accept
    /\ UNCHANGED last_chapter
    /\ \E world_theme \in WorldInputs :
          /\ session' = [session EXCEPT !.world_theme = SavedWorldTheme(world_theme)]
          /\ files' = [NoFiles EXCEPT !.world_txt = File(SavedWorldTheme(world_theme))]
    /\ UNCHANGED <<req, last_outline>>

\* POST /save_world
save_world ==
    /\ Accept
    /\ UNCHANGED last_chapter
    /\ \E world_theme \in WorldInputs :
          /\ session' = [session EXCEPT !.world_theme = SavedWorldTheme(world_theme)]
          /\ files' = [files EXCEPT !.world_txt = File(SavedWorldTheme(world_theme))]
    /\ UNCHANGED <<req, last_outline>>

\* POST /save_characters
save_characters ==
    /\ Accept
    /\ UNCHANGED last_chapter
    /\ \E characters_content \in CharacterInputs :
          /\ session' = [session EXCEPT !.characters = SavedText(characters_content)]
          /\ files' = [files EXCEPT
                          !.characters_txt = File(SavedText(characters_content))]
    /\ UNCHANGED <<req, last_outline>>

\* POST /save_outline.  The outline is written before the form field
\* num_chapters is converted: int() of a field that is not a number raises
\* (is_number false) and the request ends there, with outline.txt written.
\* Whether the session of a failed request is kept depends on how the server
\* is run (errors propagated or answered).
save_outline ==
    /\ Accept
    /\ UNCHANGED last_chapter
    /\ \E outline \in OutlineInputs, num_chapters \in 0..MaxDeclared,
          is_number \in BOOLEAN :
       \E outline_content \in {SavedText(outline)} :
       \E chapters \in {parse_outline_to_chapters(outline_content, num_chapters)} :
          IF is_number
          THEN /\ session' = [session EXCEPT !.outline = outline_content,
                                             !.chapters = chapters]
               /\ files' = [files EXCEPT !.outline_txt = File(outline_content),
                                         !.chapters_json = File(chapters)]
               /\ last_outline' = [op |-> "save_outline",
                                   num_chapters |-> num_chapters,
                                   chapters |-> chapters]
          ELSE /\ session' \in {session,
                                [session EXCEPT !.outline = outline_content]}
               /\ files' = [files EXCEPT !.outline_txt = File(outline_content)]
               /\ last_outline' = last_outline
    /\ UNCHANGED req

\* POST /generate_chapters
generate_chapters ==
    /\ Accept
    /\ UNCHANGED last_chapter
    /\ IF ~files.outline_txt.exists
       THEN UNCHANGED <<files, session, last_outline>>
       ELSE \E num_chapters \in 0..MaxDeclared :
            \E chapters \in {parse_outline_to_chapters(files.outline_txt.content,
                                                       num_chapters)} :
               /\ session' = [session EXCEPT !.chapters = chapters]
               /\ files' = [files EXCEPT !.chapters_json = File(chapters)]
               /\ last_outline' = [op |-> "generate_chapters",
                                   num_chapters |-> num_chapters,
                                   chapters |-> chapters]
    /\ UNCHANGED req

\* characters endpoints: the world theme from the session, else from world.txt
CharactersPrerequisite ==
    IF session.world_theme # <<>> THEN [ok |-> TRUE, session |-> session]
    ELSE IF files.world_txt.exists
         THEN [ok |-> TRUE,
               session |-> [session EXCEPT
                               !.world_theme = strip(files.world_txt.content)]]
         ELSE [ok |-> FALSE, session |-> session]

\* outline endpoints: world theme and characters from the session, else from
\* the files
OutlinePrerequisite ==
    IF session.world_theme # <<>> /\ session.characters # <<>>
    THEN [ok |-> TRUE, session |-> session]
    ELSE LET world_theme == IF files.world_txt.exists
                            THEN strip(files.world_txt.content)
                            ELSE session.world_theme
             characters == IF files.characters_txt.exists
                           THEN strip(files.characters_txt.content)
                           ELSE session.characters
         IN  [ok |-> world_theme # <<>> /\ characters # <<>>,
              session |-> [session EXCEPT !.world_theme = world_theme,
                                          !.characters = characters]]

\* POST /world_chat_stream
world_chat_stream ==
    /\ Accept
    /\ UNCHANGED last_chapter
    /\ req' = Streaming("world_chat_stream", 0)
    /\ UNCHANGED <<files, session, last_outline>>

\* POST /finalize_world_stream
finalize_world_stream ==
    /\ Accept
    /\ UNCHANGED last_chapter
    /\ req' = Streaming("finalize_world_stream", 0)
    /\ UNCHANGED <<files, session, last_outline>>

\* POST /characters_chat_stream
characters_chat_stream ==
    /\ Accept
    /\ UNCHANGED last_chapter
    /\ session' = CharactersPrerequisite.session
    /\ req' = IF CharactersPrerequisite.ok
              THEN Streaming("characters_chat_stream", 0) ELSE req
    /\ UNCHANGED <<files, last_outline>>

\* POST /finalize_characters_stream
finalize_characters_stream ==
    /\ Accept
    /\ UNCHANGED last_chapter
    /\ session' = CharactersPrerequisite.session
    /\ req' = IF CharactersPrerequisite.ok
              THEN Streaming("finalize_characters_stream", 0) ELSE req
    /\ UNCHANGED <<files, last_outline>>

\* POST /outline_chat_stream
outline_chat_stream ==
    /\ Accept
    /\ UNCHANGED last_chapter
    /\ session' = OutlinePrerequisite.session
    /\ req' = IF OutlinePrerequisite.ok
              THEN Streaming("outline_chat_stream", 0) ELSE req
    /\ UNCHANGED <<files, last_outline>>

\* POST /finalize_outline_stream
finalize_outline_stream ==
    /\ Accept
    /\ UNCHANGED last_chapter
    /\ session' = OutlinePrerequisite.session
    /\ \E num_chapters \in 0..MaxDeclared :
          req' = IF OutlinePrerequisite.ok
                 THEN Streaming("finalize_outline_stream", num_chapters) ELSE req
    /\ UNCHANGED <<files, last_outline>>

\* generate_heartbeat with the loop entered and no first event sent
generate_heartbeat_Omitted ==
    /\ req.pc = "start"
    /\ req' = [req EXCEPT !.pc = "loop", !.at_yield = FALSE]
    /\ UNCHANGED <<files, session, last_outline, nreq, nchunks>>
    /\ UNCHANGED parse_vars
    /\ UNCHANGED <<agent, last_chapter>>

\* generate(): the first event, sent before the upstream stream is read
generate_heartbeat ==
    /\ req.pc = "start"
    /\ req' = [req EXCEPT !.pc = "loop", !.sent = <<Heartbeat>>, !.at_yield = TRUE]
    /\ UNCHANGED <<files, session, last_outline, nreq, nchunks>>
    /\ UNCHANGED parse_vars
    /\ UNCHANGED <<agent, last_chapter>>

\* generate_chunk with the test  if content:  in place of
\* if content is not None:  so that an empty delta is neither collected nor sent
generate_chunk_Truthy ==
    /\ req.pc = "loop"
    /\ nchunks < MaxChunks
    /\ nchunks' = nchunks + 1
    /\ \E chunk \in Chunks :
          req' = IF chunk.choices /\ chunk.has_content /\ chunk.content # <<>>
                 THEN [req EXCEPT
                         !.upstream = Append(@, chunk),
                         !.collected_content =
                             IF req.endpoint \in FinalizeEndpoints
                             THEN Append(@, chunk.content) ELSE @,
                         !.sent = Append(@, chunk.content),
                         !.at_yield = TRUE]
                 ELSE [req EXCEPT !.upstream = Append(@, chunk), !.at_yield = FALSE]
    /\ UNCHANGED <<files, session, last_outline, nreq>>
    /\ UNCHANGED parse_vars
    /\ UNCHANGED <<agent, last_chapter>>

\* generate(): one turn of  for chunk in stream.  A chunk with content is
\* collected (by the finalize endpoints) and sent; any other chunk is skipped.
generate_chunk ==
    /\ req.pc = "loop"
    /\ nchunks < MaxChunks
    /\ nchunks' = nchunks + 1
    /\ \E chunk \in Chunks :
          req' = IF chunk.choices /\ chunk.has_content
                 THEN [req EXCEPT
                         !.upstream = Append(@, chunk),
                         !.collected_content =
                             IF req.endpoint \in FinalizeEndpoints
                             THEN Append(@, chunk.content) ELSE @,
                         !.sent = Append(@, chunk.content),
                         !.at_yield = TRUE]
                 ELSE [req EXCEPT !.upstream = Append(@, chunk), !.at_yield = FALSE]
    /\ UNCHANGED <<files, session, last_outline, nreq>>
    /\ UNCHANGED parse_vars
    /\ UNCHANGED <<agent, last_chapter>>

\* the chat endpoints' generate(): the stream has ended
generate_end_chat ==
    /\ req.pc = "loop"
    /\ req.endpoint \in ChatEndpoints
    /\ req' = [req EXCEPT !.pc = "done", !.sent = Append(@, Done), !.at_yield = TRUE]
    /\ UNCHANGED <<files, session, last_outline, nreq, nchunks>>
    /\ UNCHANGED parse_vars
    /\ UNCHANGED <<agent, last_chapter>>

\* generate_end_world with the completion marker sent and the file not written
generate_end_world_Unsaved ==
    /\ req.pc = "loop"
    /\ req.endpoint = "finalize_world_stream"
    /\ req' = [req EXCEPT !.pc = "done", !.sent = Append(@, Done), !.at_yield = TRUE]
    /\ UNCHANGED <<files, session, last_outline, nreq, nchunks>>
    /\ UNCHANGED parse_vars
    /\ UNCHANGED <<agent, last_chapter>>

\* finalize_world_stream's generate(): the stream has ended.  The response
\* headers, and with them the session cookie, were sent before the
\* generator started: the assignment to session[...] reaches no later request.
generate_end_world ==
    /\ req.pc = "loop"
    /\ req.endpoint = "finalize_world_stream"
    /\ files' = [files EXCEPT
                    !.world_txt = File(WorldThemeOf(join(req.collected_content)))]
    /\ req' = [req EXCEPT !.pc = "done", !.sent = Append(@, Done), !.at_yield = TRUE]
    /\ UNCHANGED <<session, last_outline, nreq, nchunks>>
    /\ UNCHANGED parse_vars
    /\ UNCHANGED <<agent, last_chapter>>

\* generate_end_characters saving the text without the last delta collected
generate_end_characters_DropLast ==
    /\ req.pc = "loop"
    /\ req.endpoint = "finalize_characters_stream"
    /\ files' = [files EXCEPT
                    !.characters_txt =
                        File(CharactersOf(join(
                            SubSeq(req.collected_content, 1,
                                   Len(req.collected_content) - 1))))]
    /\ req' = [req EXCEPT !.pc = "done", !.sent = Append(@, Done), !.at_yield = TRUE]
    /\ UNCHANGED <<session, last_outline, nreq, nchunks>>
    /\ UNCHANGED parse_vars
    /\ UNCHANGED <<agent, last_chapter>>

\* finalize_characters_stream's generate(): the stream has ended
generate_end_characters ==
    /\ req.pc = "loop"
    /\ req.endpoint = "finalize_characters_stream"
    /\ files' = [files EXCEPT
                    !.characters_txt =
                        File(CharactersOf(join(req.collected_content)))]
    /\ req' = [req EXCEPT !.pc = "done", !.sent = Append(@, Done), !.at_yield = TRUE]
    /\ UNCHANGED <<session, last_outline, nreq, nchunks>>
    /\ UNCHANGED parse_vars
    /\ UNCHANGED <<agent, last_chapter>>

\* finalize_outline_stream's generate(): the stream has ended.  The outline
\* goes to outline.txt; its records go to chapters.json, written by
\* parse_outline_to_chapters itself, and to outline.json.
generate_end_outline ==
    /\ req.pc = "loop"
    /\ req.endpoint = "finalize_outline_stream"
    /\ \E outline_content \in {OutlineOf(join(req.collected_content))} :
       \E chapters \in {parse_outline_to_chapters(outline_content, req.num_chapters)} :
          /\ files' = [files EXCEPT !.outline_txt = File(outline_content),
                                    !.chapters_json = File(chapters),
                                    !.outline_json = File(chapters)]
          /\ last_outline' = [op |-> "finalize_outline_stream",
                              num_chapters |-> req.num_chapters,
                              chapters |-> chapters]
    /\ req' = [req EXCEPT !.pc = "done", !.sent = Append(@, Done), !.at_yield = TRUE]
    /\ UNCHANGED <<session, nreq, nchunks>>
    /\ UNCHANGED parse_vars
    /\ UNCHANGED <<agent, last_chapter>>

\* generator_close with the text collected so far saved, as a  finally:  around
\* the loop would
generator_close_Saving ==
    /\ req.pc = "loop"
    /\ req.at_yield
    /\ req' = [req EXCEPT !.pc = "closed"]
    /\ files' =
          IF req.endpoint = "finalize_world_stream"
          THEN [files EXCEPT
                  !.world_txt = File(WorldThemeOf(join(req.collected_content)))]
          ELSE IF req.endpoint = "finalize_characters_stream"
          THEN [files EXCEPT
                  !.characters_txt = File(CharactersOf(join(req.collected_content)))]
          ELSE IF req.endpoint = "finalize_outline_stream"
          THEN [files EXCEPT
                  !.outline_txt = File(OutlineOf(join(req.collected_content)))]
          ELSE files
    /\ UNCHANGED <<session, last_outline, nreq, nchunks>>
    /\ UNCHANGED parse_vars
    /\ UNCHANGED <<agent, last_chapter>>

\* the client has gone: the server closes the generator, which is suspended
\* at a yield, and nothing after that yield runs
generator_close ==
    /\ req.pc = "loop"
    /\ req.at_yield
    /\ req' = [req EXCEPT !.pc = "closed"]
    /\ UNCHANGED <<files, session, last_outline, nreq, nchunks>>
    /\ UNCHANGED parse_vars
    /\ UNCHANGED <<agent, last_chapter>>

\* reading the next chunk raises: the exception leaves generate()
upstream_error ==
    /\ req.pc = "loop"
    /\ req' = [req EXCEPT !.pc = "failed"]
    /\ UNCHANGED <<files, session, last_outline, nreq, nchunks>>
    /\ UNCHANGED parse_vars
    /\ UNCHANGED <<agent, last_chapter>>

\* the response is over
request_end ==
    /\ req.pc \in {"done", "closed", "failed"}
    /\ req' = Idle
    /\ UNCHANGED <<files, session, last_outline, nreq, nchunks>>
    /\ UNCHANGED parse_vars
    /\ UNCHANGED <<agent, last_chapter>>

Next ==
    \/ save_world
    \/ save_characters
    \/ save_outline
    \/ generate_chapters
    \/ world_chat_stream
    \/ finalize_world_stream
    \/ characters_chat_stream
    \/ finalize_characters_stream
    \/ outline_chat_stream
    \/ finalize_outline_stream
    \/ generate_heartbeat
    \/ generate_chunk
    \/ generate_end_chat
    \/ generate_end_world
    \/ generate_end_characters
    \/ generate_end_outline
    \/ generator_close
    \/ upstream_error
    \/ request_end

Spec == Init /\ [][Next]_vars

----------------------------------------------------------------------------
(* BookAgents on its own: an object is constructed, create_agents builds    *)
(* the prompt catalog, and one method is called.                            *)

\* all the texts made of at most n pieces
RECURSIVE TextsUpTo(_, _)
TextsUpTo(pieces, n) ==
    IF n = 0 THEN {<<>>}
    ELSE TextsUpTo(pieces, n - 1)
         \cup {t \o p : t \in TextsUpTo(pieces, n - 1), p \in pieces}

\* all the sequences of at most n elements of S
RECURSIVE SeqsUpTo(_, _)
SeqsUpTo(S, n) ==
    IF n = 0 THEN {<<>>}
    ELSE SeqsUpTo(S, n - 1)
         \cup {Append(s, x) : s \in SeqsUpTo(S, n - 1), x \in S}

\* agent_name arguments: the keys of the catalog and two names that are none
AgentNames == CatalogKeys \cup {"scene_writer", ""}

ResponsePieces ==
    { <<"x">>, <<SP>>, OutlineStart, OutlineEnd, SceneFinal, WorldElements,
      StoryArc, CharacterProfiles, <<"Setting:">> }

\* completion.choices[0].message.content
Responses == TextsUpTo(ResponsePieces, MaxPieces)

Prompts == { <<"p">> }

HistoryEntries ==
    [role : {"user", "assistant", "system"}, content : { <<"a">>, <<"b">> }]

Histories == SeqsUpTo(HistoryEntries, MaxHistory)

InitAgents ==
    /\ arg_text = <<>>
    /\ arg_num = 0
    /\ ret = <<>>
    /\ pc_parse = "input"
    /\ nsegs = 0
    /\ files = NoFiles
    /\ session = EmptySession
    /\ req = Idle
    /\ last_outline = NoOutlineOp
    /\ nreq = 0
    /\ nchunks = 0
    /\ agent = NewAgents
    /\ last_chapter = NoChapterRequest

\* BookAgents.create_agents: self.system_prompts is assigned
create_agents ==
    /\ agent.pc = "ready"
    /\ ~agent.has_system_prompts
    /\ agent' = [agent EXCEPT !.has_system_prompts = TRUE]
    /\ UNCHANGED parse_vars
    /\ UNCHANGED app_vars
    /\ UNCHANGED files

\* generate_content without the test  agent_name not in self.system_prompts:
\* the look-up of an unknown name raises KeyError
generate_content_Unchecked ==
    /\ agent.pc = "ready"
    /\ \E agent_name \in AgentNames, prompt \in Prompts :
          IF ~agent.has_system_prompts
          THEN agent' = [agent EXCEPT !.pc = "raised", !.method = "generate_content",
                                      !.agent_name = agent_name,
                                      !.outcome = "AttributeError"]
          ELSE IF agent_name \notin CatalogKeys
          THEN agent' = [agent EXCEPT !.pc = "raised", !.method = "generate_content",
                                      !.agent_name = agent_name,
                                      !.outcome = "KeyError"]
          ELSE \E response \in Responses :
                  agent' = [agent EXCEPT
                              !.pc = "returned", !.method = "generate_content",
                              !.agent_name = agent_name,
                              !.messages =
                                  <<Message("system", SystemPrompt(agent_name)),
                                    Message("user", prompt)>>,
                              !.dispatched = @ + 1,
                              !.response = response,
                              !.result = CleanResponse(agent_name, response),
                              !.outcome = "returned"]
    /\ UNCHANGED parse_vars
    /\ UNCHANGED app_vars
    /\ UNCHANGED files

\* BookAgents.generate_content(agent_name, prompt), the answer of the model
\* included
generate_content ==
    /\ agent.pc = "ready"
    /\ \E agent_name \in AgentNames, prompt \in Prompts :
          IF ~agent.has_system_prompts
          THEN agent' = [agent EXCEPT !.pc = "raised", !.method = "generate_content",
                                      !.agent_name = agent_name,
                                      !.outcome = "AttributeError"]
          ELSE IF agent_name \notin CatalogKeys
          THEN agent' = [agent EXCEPT !.pc = "raised", !.method = "generate_content",
                                      !.agent_name = agent_name,
                                      !.outcome = "ValueError"]
          ELSE \/ \E response \in Responses :
                     agent' = [agent EXCEPT
                                 !.pc = "returned", !.method = "generate_content",
                                 !.agent_name = agent_name,
                                 !.messages =
                                     <<Message("system", SystemPrompt(agent_name)),
                                       Message("user", prompt)>>,
                                 !.dispatched = @ + 1,
                                 !.response = response,
                                 !.result = CleanResponse(agent_name, response),
                                 !.outcome = "returned"]
               \/ agent' = [agent EXCEPT
                              !.pc = "raised", !.method = "generate_content",
                              !.agent_name = agent_name,
                              !.messages =
                                  <<Message("system", SystemPrompt(agent_name)),
                                    Message("user", prompt)>>,
                              !.dispatched = @ + 1,
                              !.outcome = "APIError"]
    /\ UNCHANGED parse_vars
    /\ UNCHANGED app_vars
    /\ UNCHANGED files

\* a chat method: the request is built and sent
ChatCall(method) ==
    /\ \E chat_history \in Histories, user_message \in { <<"u">> },
          world_theme \in { <<"w">> }, characters \in { <<"c">> } :
          agent' =
             IF ~agent.has_system_prompts
             THEN [agent EXCEPT !.pc = "raised", !.method = method,
                                !.chat_history = chat_history,
                                !.user_message = user_message,
                                !.outcome = "AttributeError"]
             ELSE [agent EXCEPT !.pc = "returned", !.method = method,
                                !.chat_history = chat_history,
                                !.user_message = user_message,
                                !.messages =
                                    ChatMessages(method, chat_history, world_theme,
                                                 characters, user_message),
                                !.dispatched = @ + 1,
                                !.outcome = "returned"]
    /\ UNCHANGED parse_vars
    /\ UNCHANGED app_vars
    /\ UNCHANGED files

generate_chat_response ==
    /\ agent.pc = "ready"
    /\ ChatCall("generate_chat_response")

generate_chat_response_stream ==
    /\ agent.pc = "ready"
    /\ ChatCall("generate_chat_response_stream")

generate_chat_response_characters ==
    /\ agent.pc = "ready"
    /\ ChatCall("generate_chat_response_characters")

generate_chat_response_characters_stream ==
    /\ agent.pc = "ready"
    /\ ChatCall("generate_chat_response_characters_stream")

generate_chat_response_outline ==
    /\ agent.pc = "ready"
    /\ ChatCall("generate_chat_response_outline")

generate_chat_response_outline_stream ==
    /\ agent.pc = "ready"
    /\ ChatCall("generate_chat_response_outline_stream")

NextAgents ==
    \/ create_agents
    \/ generate_content
    \/ generate_chat_response
    \/ generate_chat_response_stream
    \/ generate_chat_response_characters
    \/ generate_chat_response_characters_stream
    \/ generate_chat_response_outline
    \/ generate_chat_response_outline_stream

SpecAgents == InitAgents /\ [][NextAgents]_vars

----------------------------------------------------------------------------
(* The chapter pages: /chapter/<n> and /save_chapter/<n>, with the outline  *)
(* operations that produce the chapter records                              *)

\* a run of n characters y, as one token
Run(n) ==
    CASE n = 997 -> "y{997}" [] n = 998 -> "y{998}" [] n = 999 -> "y{999}"
      [] n = 1000 -> "y{1000}" [] n = 1001 -> "y{1001}"

RunTokens == {Run(n) : n \in 997..1001}

\* len() of a token
CharLen(c) ==
    CASE c = "y{997}" -> 997 [] c = "y{998}" -> 998 [] c = "y{999}" -> 999
      [] c = "y{1000}" -> 1000 [] c = "y{1001}" -> 1001
      [] c = "Chapter" -> 7 [] c = "OUTLINE" -> 7 [] c = "END OF" -> 6
      [] c = "SCENE FINAL" -> 11 [] c = BigDigits -> MaxStrDigits + 1
      [] OTHER -> 1

\* len(s)
RECURSIVE len(_)
len(s) == IF s = <<>> THEN 0 ELSE CharLen(Head(s)) + len(Tail(s))

\* s[-k:] for len(s) >= k, where the cut falls at a token boundary or inside
\* a run of y
RECURSIVE LastChars(_, _)
LastChars(s, k) ==
    IF k = 0 \/ s = <<>> THEN <<>>
    ELSE IF CharLen(s[Len(s)]) <= k
         THEN LastChars(SubSeq(s, 1, Len(s) - 1), k - CharLen(s[Len(s)]))
              \o <<s[Len(s)]>>
         ELSE <<Run(k)>>

\* the whole of the previous chapter, whatever its length
PreviousContextOf_Whole(content) == content

\* content[-1000:] if len(content) > 1000 else content
PreviousContextOf(content) ==
    IF len(content) > ContextChars THEN LastChars(content, ContextChars) ELSE content

\* previous_context of the request for chapter_number
PreviousContext(chapter_number) ==
    IF chapter_number > 1 /\ files.chapter_txt[chapter_number - 1].exists
    THEN PreviousContextOf(files.chapter_txt[chapter_number - 1].content)
    ELSE <<>>

\* chapters: the session's list, else the list of chapters.json
ChaptersOfRequest ==
    IF session.chapters = <<>> /\ files.chapters_json.exists
    THEN files.chapters_json.content
    ELSE session.chapters

\* a session slot, else the stripped text of its file
SlotOrFile(slot, file) ==
    IF slot = <<>> /\ file.exists THEN strip(file.content) ELSE slot

\* the first record of chapters, whatever its number
ChapterData_First(chapters, chapter_number) ==
    IF chapters = <<>> THEN [found |-> FALSE]
    ELSE [found |-> TRUE, record |-> Head(chapters)]

\* the first record of chapters with the number chapter_number, if any
RECURSIVE ChapterData(_, _)
ChapterData(chapters, chapter_number) ==
    IF chapters = <<>> THEN [found |-> FALSE]
    ELSE IF Head(chapters).chapter_number = chapter_number
         THEN [found |-> TRUE, record |-> Head(chapters)]
         ELSE ChapterData(Tail(chapters), chapter_number)

\* answers of the writer, and chapter texts sent by the editor form
WriterResponses ==
    { <<"a">>,
      <<"draft", SP>> \o SceneFinal \o <<SP, "b", Run(999), NL>>,
      <<"c", Run(1000)>> }

ChapterContents == { <<"e", Run(1001), SP>> }

\* the projects the chapter pages are opened on
ChapterInitialFiles ==
    { NoFiles,
      [NoFiles EXCEPT !.world_txt = File(<<"w">>),
                      !.characters_txt = File(<<"c">>),
                      !.outline_txt = File(<<"x">>),
                      !.chapters_json = File(DefaultChapters(3)),
                      !.chapter_txt = [n \in 0..MaxChapterNumber |->
                                          IF n = 1 THEN File(<<"d", Run(1000), "f">>)
                                          ELSE NoFile]] }

InitChapter ==
    /\ arg_text = <<>>
    /\ arg_num = 0
    /\ ret = <<>>
    /\ pc_parse = "input"
    /\ nsegs = 0
    /\ files \in ChapterInitialFiles
    /\ session = EmptySession
    /\ req = Idle
    /\ last_outline = NoOutlineOp
    /\ nreq = 0
    /\ nchunks = 0
    /\ agent = NewAgents
    /\ last_chapter = NoChapterRequest

\* the fields CHAPTER_GENERATION_PROMPT is formatted with
ChapterPrompt(chapter_number, record, additional_context, world_theme, characters) ==
    [chapter_number |-> chapter_number,
     chapter_title |-> record.title,
     chapter_outline |-> IF additional_context # <<>>
                         THEN record.prompt \o <<NL, NL>> \o additional_context
                         ELSE record.prompt,
     world_theme |-> world_theme,
     relevant_characters |-> characters,
     scene_details |-> <<>>,
     previous_context |-> PreviousContext(chapter_number)]

\* GET or POST /chapter/<chapter_number>, the answer of the writer included
chapter ==
    /\ Accept
    /\ \E chapter_number \in 0..MaxChapterNumber, method \in {"GET", "POST"},
          additional_context \in { <<>>, <<"k">> }, response \in WriterResponses,
          upstream_ok \in BOOLEAN :
          IF ~ChapterData(ChaptersOfRequest, chapter_number).found
          THEN /\ session' = [session EXCEPT !.chapters = ChaptersOfRequest]
               /\ files' = files
               /\ last_chapter' = [NoChapterRequest EXCEPT
                                     !.method = method,
                                     !.chapter_number = chapter_number,
                                     !.outcome = "not_found",
                                     !.files_before = files]
          ELSE IF method = "GET"
          THEN /\ session' = [session EXCEPT !.chapters = ChaptersOfRequest]
               /\ files' = files
               /\ last_chapter' = [NoChapterRequest EXCEPT
                                     !.method = method,
                                     !.chapter_number = chapter_number,
                                     !.outcome = "shown",
                                     !.files_before = files]
          ELSE /\ session' =
                     [session EXCEPT
                        !.chapters = ChaptersOfRequest,
                        !.world_theme = SlotOrFile(@, files.world_txt),
                        !.characters = SlotOrFile(@, files.characters_txt),
                        !.outline = SlotOrFile(@, files.outline_txt)]
               /\ files' =
                     IF upstream_ok
                     THEN [files EXCEPT
                             !.chapter_txt[chapter_number] =
                                 File(strip(CleanResponse("writer", response)))]
                     ELSE files
               /\ last_chapter' =
                     [method |-> method,
                      chapter_number |-> chapter_number,
                      outcome |-> IF upstream_ok THEN "generated" ELSE "APIError",
                      dispatched |-> 1,
                      prompt |->
                          ChapterPrompt(chapter_number,
                              ChapterData(ChaptersOfRequest, chapter_number).record,
                              additional_context,
                              SlotOrFile(session.world_theme, files.world_txt),
                              SlotOrFile(session.characters, files.characters_txt)),
                      files_before |-> files]
    /\ UNCHANGED <<req, last_outline>>

\* POST /save_chapter/<chapter_number>
save_chapter ==
    /\ Accept
    /\ \E chapter_number \in 0..MaxChapterNumber, chapter_content \in ChapterContents :
          files' = [files EXCEPT
                      !.chapter_txt[chapter_number] = File(strip(chapter_content))]
    /\ UNCHANGED <<session, req, last_outline, last_chapter>>

NextChapter ==
    \/ save_outline
    \/ generate_chapters
    \/ chapter
    \/ save_chapter

SpecChapter == InitChapter /\ [][NextChapter]_vars

----------------------------------------------------------------------------
(* The operations that write the project: every stage's save and finalize  *)
(* endpoints and the chapter pages, on a new or an existing project, each   *)
(* stream read to its end                                                   *)

\* an existing project and a new client; the requests that wrote the project
\* count as one
InitBook ==
    /\ arg_text = <<>>
    /\ arg_num = 0
    /\ ret = <<>>
    /\ pc_parse = "input"
    /\ nsegs = 0
    /\ files \in (InitialFiles \cup ChapterInitialFiles) \ {NoFiles}
    /\ session = EmptySession
    /\ req = Idle
    /\ last_outline = NoOutlineOp
    /\ nreq = 1
    /\ nchunks = 0
    /\ agent = NewAgents
    /\ last_chapter = NoChapterRequest

NextBook ==
    \/ save_world
    \/ save_characters
    \/ save_outline
    \/ generate_chapters
    \/ finalize_world_stream
    \/ finalize_characters_stream
    \/ finalize_outline_stream
    \/ generate_heartbeat
    \/ generate_chunk
    \/ generate_end_world
    \/ generate_end_characters
    \/ generate_end_outline
    \/ request_end
    \/ chapter
    \/ save_chapter

SpecBook == InitBook /\ [][NextBook]_vars

----------------------------------------------------------------------------
(* Properties of parse_outline_to_chapters, under SpecParse *)

\* a digit string without its leading zeros
RECURSIVE Canon(_)
Canon(ds) == IF Len(ds) > 1 /\ Head(ds) = "0" THEN Canon(Tail(ds)) ELSE ds

\* the well-formed headers of the text the parser scans
ScannedHeaders == finditer(OutlineText(arg_text), 0)

\* the numbers of the returned records, written in decimal
ReturnedNumbers == {str(ret[i].chapter_number) : i \in 1..Len(ret)}

DistinctHeaderNumbers ==
    \A i, j \in 1..Len(ScannedHeaders) :
        i # j => Canon(ScannedHeaders[i].group1) # Canon(ScannedHeaders[j].group1)

StrictlyAscending(chapters) ==
    \A i, j \in 1..Len(chapters) :
        i < j => chapters[i].chapter_number < chapters[j].chapter_number

\* C1: when the well-formed headers of the text carry N >= 1 pairwise distinct
\* numbers, the parser returns exactly N records, one for each header, in
\* strictly ascending order of chapter_number, whatever the header order and
\* the declared count.
C1_OnePerHeaderAscending ==
    (pc_parse = "returned" /\ ScannedHeaders # <<>> /\ DistinctHeaderNumbers)
    => /\ Len(ret) = Len(ScannedHeaders)
       /\ StrictlyAscending(ret)
       /\ \A k \in 1..Len(ScannedHeaders) :
             Canon(ScannedHeaders[k].group1) \in ReturnedNumbers

\* header k is the first one with its number
FirstOccurrence(k) ==
    \A i \in 1..(k - 1) :
        Canon(ScannedHeaders[i].group1) # Canon(ScannedHeaders[k].group1)

\* header k has a later header with the same number
HasDuplicate(k) ==
    \E j \in (k + 1)..Len(ScannedHeaders) :
        Canon(ScannedHeaders[j].group1) = Canon(ScannedHeaders[k].group1)

\* C2: when a chapter number occurs in more than one header, there is a record
\* for that number and every record for it carries the title and the body of
\* the first occurrence, so that no record carries those of a later one.
C2_FirstOccurrenceWins ==
    pc_parse = "returned"
    => \A k \in 1..Len(ScannedHeaders) :
          (FirstOccurrence(k) /\ HasDuplicate(k))
          => /\ Canon(ScannedHeaders[k].group1) \in ReturnedNumbers
             /\ \A i \in 1..Len(ret) :
                   str(ret[i].chapter_number) = Canon(ScannedHeaders[k].group1)
                   => /\ ret[i].title = strip(ScannedHeaders[k].group2)
                      /\ ret[i].prompt =
                            ChapterDescription(OutlineText(arg_text),
                                               ScannedHeaders[k].start)

\* C3: a text without any recognizable chapter header yields exactly
\* num_chapters stub records, numbered 1..num_chapters in this order, record i
\* with the title "Chapter i" and the placeholder prompt.
C3_StubsWhenNoHeader ==
    (pc_parse = "returned" /\ finditer(arg_text, 0) = <<>>)
    => /\ Len(ret) = arg_num
       /\ \A i \in 1..Len(ret) :
             /\ ret[i].chapter_number = i
             /\ ret[i].title = <<"Chapter", SP>> \o str(i)
             /\ ret[i].prompt = <<"Content", SP, "for", SP, "chapter", SP>> \o str(i)

\* C3 witness: a non-empty text without header, parsed with a declared count of 2
C3_Witness ==
    /\ pc_parse = "returned"
    /\ arg_text # <<>>
    /\ finditer(arg_text, 0) = <<>>
    /\ arg_num = 2
    /\ Len(ret) = 2

\* C5: when the parser finds at least one well-formed header, the list it
\* returns is the same for every declared count.
C5_DeclaredCountIgnored ==
    (pc_parse = "returned" /\ ScannedHeaders # <<>>)
    => \A n \in 0..MaxDeclared : parse_outline_to_chapters(arg_text, n) = ret

\* the text between the first OUTLINE: and the first END OF OUTLINE when both
\* occur, else the whole text
MarkedRegion ==
    IF /\ \E i \in 0..Len(arg_text) : OccursAt(arg_text, <<"OUTLINE", ":">>, i)
       /\ \E i \in 0..Len(arg_text) : OccursAt(arg_text, <<"END OF", SP, "OUTLINE">>, i)
    THEN Slice(arg_text, find(arg_text, <<"OUTLINE", ":">>) + 2,
               find(arg_text, <<"END OF", SP, "OUTLINE">>))
    ELSE arg_text

\* C6: with both markers in the text, the records are those of the headers
\* between the markers, and a header outside them yields none; with a marker
\* missing, the records are those of the headers of the whole text.
C6_MarkersRestrictHeaders ==
    (pc_parse = "returned" /\ finditer(MarkedRegion, 0) # <<>>)
    => ReturnedNumbers =
          {Canon(finditer(MarkedRegion, 0)[k].group1) :
              k \in 1..Len(finditer(MarkedRegion, 0))}

----------------------------------------------------------------------------
(* Properties of the web application, under Spec *)

\* C4: the chapter records an outline operation finalizes with the declared
\* count N have pairwise distinct numbers, and the numbers are exactly 1..N.
C4_RecordsAreOneToN ==
    last_outline.op # "none"
    => /\ Len(last_outline.chapters) = last_outline.num_chapters
       /\ {last_outline.chapters[i].chapter_number :
              i \in 1..Len(last_outline.chapters)} = 1..last_outline.num_chapters

\* the contents of the chunks that carry content, in arrival order
RECURSIVE ContentDeltas(_)
ContentDeltas(chunks) ==
    IF chunks = <<>> THEN <<>>
    ELSE IF Head(chunks).choices /\ Head(chunks).has_content
         THEN <<Head(chunks).content>> \o ContentDeltas(Tail(chunks))
         ELSE ContentDeltas(Tail(chunks))

\* the completion marker has been sent
DoneSent == \E i \in 2..Len(req.sent) : req.sent[i] = Done

\* the events sent after the heartbeat, the completion marker left out
DeltasSent ==
    SubSeq(req.sent, 2, IF req.pc = "done" THEN Len(req.sent) - 1 ELSE Len(req.sent))

\* C7: in every streaming endpoint the events sent are the heartbeat, then the
\* content of each upstream chunk that carries content, once and in arrival
\* order, then (when the stream has ended) the completion marker.
C7_DeltasForwardedInOrder ==
    /\ req.pc \in {"idle", "start"} => req.sent = <<>>
    /\ req.pc \in {"loop", "closed", "failed"}
       => req.sent = <<Heartbeat>> \o ContentDeltas(req.upstream)
    /\ req.pc = "done"
       => req.sent = <<Heartbeat>> \o ContentDeltas(req.upstream) \o <<Done>>

\* C7 witness: a chat stream has ended after a chunk without content, which
\* was skipped, and a chunk with content, which was sent
C7_Witness ==
    /\ req.pc = "done"
    /\ req.endpoint \in ChatEndpoints
    /\ \E i \in 1..Len(req.upstream) : ~req.upstream[i].has_content
    /\ Len(ContentDeltas(req.upstream)) >= 1
    /\ Len(req.sent) >= 3

\* the file a finalize endpoint saves its text in
Artifact(f) ==
    CASE req.endpoint = "finalize_world_stream" -> f.world_txt
      [] req.endpoint = "finalize_characters_stream" -> f.characters_txt
      [] req.endpoint = "finalize_outline_stream" -> f.outline_txt

\* the normalisation a finalize endpoint applies before it saves
Normalised(text) ==
    CASE req.endpoint = "finalize_world_stream" -> WorldThemeOf(text)
      [] req.endpoint = "finalize_characters_stream" -> CharactersOf(text)
      [] req.endpoint = "finalize_outline_stream" -> OutlineOf(text)

\* C8: as long as a finalize stream has not ended normally, and when it was
\* closed by a disconnect or failed upstream, every file is as it was when
\* the request started, and no completion marker has been sent.
C8_NothingSavedOnAbort ==
    (req.endpoint \in FinalizeEndpoints
        /\ req.pc \in {"start", "loop", "closed", "failed"})
    => /\ files = req.files_at_start
       /\ ~DoneSent

\* C8 witness: a finalize stream over an existing artifact was closed, or
\* failed, after deltas with text had been sent
C8_Witness ==
    /\ req.endpoint \in FinalizeEndpoints
    /\ req.pc \in {"closed", "failed"}
    /\ Artifact(req.files_at_start).exists
    /\ strip(join(req.collected_content)) # <<>>
    /\ Len(req.collected_content) < MaxChunks

\* C9: when a finalize endpoint has sent the completion marker, the artifact
\* holds the normalised accumulated text.
C9_SavedBeforeDone ==
    (req.endpoint \in FinalizeEndpoints /\ DoneSent)
    => /\ req.pc = "done"
       /\ Artifact(files) = File(Normalised(join(req.collected_content)))

\* C9 witness: the completion marker sent, the artifact holds a new text
C9_Witness ==
    /\ req.endpoint \in FinalizeEndpoints
    /\ DoneSent
    /\ Artifact(files) # Artifact(req.files_at_start)
    /\ Artifact(files).content # <<>>

\* C10: after a finalize stream has ended normally, the artifact holds the
\* endpoint's normalisation of the concatenation of the deltas sent.
C10_SavedIsNormalisedDeltasSent ==
    (req.endpoint \in FinalizeEndpoints /\ req.pc = "done")
    => Artifact(files) = File(Normalised(join(DeltasSent)))

\* C10 witness: two deltas were sent and the saved text is not their plain
\* concatenation
C10_Witness ==
    /\ req.endpoint \in FinalizeEndpoints
    /\ req.pc = "done"
    /\ Len(DeltasSent) = 2
    /\ Artifact(files).content # join(DeltasSent)
    /\ Artifact(files).content # <<>>

\* the paragraph policy: leading and trailing whitespace stripped, every run
\* of two or more newlines made exactly two newlines
RECURSIVE ParagraphBreaksKept(_)
ParagraphBreaksKept(text) ==
    IF text = <<>> THEN <<>>
    ELSE IF Head(text) # NL
         THEN <<Head(text)>> \o ParagraphBreaksKept(Tail(text))
         ELSE IF Len(text) >= 2 /\ text[2] = NL
              THEN <<NL, NL>> \o
                   ParagraphBreaksKept(SliceFrom(text, NewlineRunEnd(text, 0)))
              ELSE <<NL>> \o ParagraphBreaksKept(Tail(text))

\* C11: after a streaming finalize of the world or of the characters has ended
\* normally, the saved text is the accumulated text stripped, with every run
\* of three or more newlines made two newlines and every run of two kept.
C11_ParagraphBreaksPreserved ==
    (req.endpoint \in {"finalize_world_stream", "finalize_characters_stream"}
        /\ req.pc = "done")
    => Artifact(files) =
          File(ParagraphBreaksKept(strip(join(req.collected_content))))

\* the positions of req.sent that hold the completion marker
DonePositions == {i \in 1..Len(req.sent) : req.sent[i] = Done}

----------------------------------------------------------------------------
(* Properties of BookAgents, under SpecAgents *)

\* C13: generate_content on an object whose prompt catalog is built, with a
\* name that is no key of the catalog, raises the ValueError and sends no
\* request; with a name that is a key it does not raise that error.
C13_UnknownAgentRejected ==
    (agent.method = "generate_content" /\ agent.has_system_prompts)
    => /\ agent.agent_name \notin CatalogKeys
          => /\ agent.outcome = "ValueError"
             /\ agent.dispatched = 0
             /\ agent.messages = <<>>
       /\ agent.agent_name \in CatalogKeys
          => agent.outcome \in {"returned", "APIError"}

\* C13 witness: generate_content("scene_writer", ...) has raised the ValueError
C13_Witness ==
    /\ agent.method = "generate_content"
    /\ agent.has_system_prompts
    /\ agent.agent_name = "scene_writer"
    /\ agent.outcome = "ValueError"
    /\ agent.dispatched = 0

\* C14: the request a chat method sends is one or more system messages, then
\* every entry of the history with its role and content, in order, then the
\* user turn as the last message, with the role user.
C14_ChatRequestShape ==
    (agent.method \in ChatMethods /\ agent.outcome = "returned")
    => LET h == Len(agent.chat_history)
           k == Len(agent.messages) - h - 1
       IN  /\ k >= 1
           /\ \A i \in 1..k : agent.messages[i].role = "system"
           /\ \A j \in 1..h :
                 /\ agent.messages[k + j].role = agent.chat_history[j].role
                 /\ agent.messages[k + j].content = agent.chat_history[j].content
           /\ agent.messages[Len(agent.messages)] = Message("user", agent.user_message)

\* C15: for outline_creator, a response that holds both markers gives the
\* part of the response that starts at an OUTLINE: marker and ends with an
\* END OF OUTLINE marker, the markers included; a response that lacks a
\* marker is returned unchanged.
C15_OutlineBetweenMarkers ==
    (agent.method = "generate_content" /\ agent.outcome = "returned"
        /\ agent.agent_name = "outline_creator")
    => IF Contains(agent.response, OutlineStart) /\ Contains(agent.response, OutlineEnd)
       THEN \E a, b \in 0..Len(agent.response) :
               /\ OccursAt(agent.response, OutlineStart, a)
               /\ b >= a + Len(OutlineEnd)
               /\ OccursAt(agent.response, OutlineEnd, b - Len(OutlineEnd))
               /\ agent.result = Slice(agent.response, a, b)
       ELSE agent.result = agent.response

\* C16: for writer, a response that holds SCENE FINAL: gives all the text
\* after an occurrence of that marker, stripped; a response without the
\* marker is returned unchanged.
C16_TextAfterSceneFinal ==
    (agent.method = "generate_content" /\ agent.outcome = "returned"
        /\ agent.agent_name = "writer")
    => IF Contains(agent.response, SceneFinal)
       THEN \E a \in 0..Len(agent.response) :
               /\ OccursAt(agent.response, SceneFinal, a)
               /\ agent.result = strip(SliceFrom(agent.response, a + Len(SceneFinal)))
       ELSE agent.result = agent.response

\* C17: for every agent of the catalog and every response, generate_content
\* returns a text, and the text is not empty unless the response is.
C17_ResultNotEmptied ==
    (agent.method = "generate_content" /\ agent.outcome = "returned")
    => (agent.response # <<>> => agent.result # <<>>)

\* the start marker of an agent that has one
StartMarker(agent_name) ==
    CASE agent_name = "world_builder" -> WorldElements
      [] agent_name = "story_planner" -> StoryArc
      [] agent_name = "character_generator" -> CharacterProfiles

\* C18: for world_builder, story_planner and character_generator, a response
\* that holds the agent's start marker gives the response from the first
\* occurrence of the marker to its end, stripped; a response without the
\* marker is returned unchanged, alternate header or not.
C18_FromStartMarker ==
    (agent.method = "generate_content" /\ agent.outcome = "returned"
        /\ agent.agent_name \in {"world_builder", "story_planner", "character_generator"})
    => IF \E a \in 0..Len(agent.response) :
             OccursAt(agent.response, StartMarker(agent.agent_name), a)
       THEN \E a \in 0..Len(agent.response) :
               /\ OccursAt(agent.response, StartMarker(agent.agent_name), a)
               /\ \A b \in 0..(a - 1) :
                     ~OccursAt(agent.response, StartMarker(agent.agent_name), b)
               /\ agent.result = strip(SliceFrom(agent.response, a))
       ELSE agent.result = agent.response

\* C18 witness: world_builder has answered with text before the marker and
\* whitespace at the end, and the result starts at the marker
C18_Witness ==
    /\ agent.method = "generate_content"
    /\ agent.outcome = "returned"
    /\ agent.agent_name = "world_builder"
    /\ agent.response = <<"x">> \o WorldElements \o <<SP>>
    /\ agent.result = WorldElements

----------------------------------------------------------------------------
(* Properties of the chapter pages, under SpecChapter *)

\* the numbers that have a record in chapters.json
RecordedNumbers(fs) ==
    IF fs.chapters_json.exists
    THEN { fs.chapters_json.content[i].chapter_number :
             i \in DOMAIN fs.chapters_json.content }
    ELSE {}

RECURSIVE Characters(_)
Characters(s) ==
    IF s = <<>> THEN <<>>
    ELSE [i \in 1..CharLen(Head(s)) |->
             IF Head(s) \in RunTokens THEN <<"y", 0>> ELSE <<Head(s), i>>]
         \o Characters(Tail(s))

\* the last k characters of a text
Suffix(s, k) == SubSeq(Characters(s), Len(Characters(s)) - k + 1, Len(Characters(s)))

Min(a, b) == IF a < b THEN a ELSE b

\* C20: the previous-chapter context given to the writer for chapter n is
\* empty when n = 1 or chapter n-1 has no file, and otherwise the last
\* min(1000, length) characters of the file of chapter n-1; it is never longer
\* than 1000 characters.
C20_PreviousContextIsSuffix ==
    last_chapter.dispatched = 1 =>
        LET n == last_chapter.chapter_number
            context == last_chapter.prompt.previous_context
            previous == last_chapter.files_before.chapter_txt[n - 1]
        IN  /\ len(context) <= ContextChars
            /\ IF n = 1 \/ ~previous.exists
               THEN context = <<>>
               ELSE Characters(context) =
                        Suffix(previous.content,
                               Min(ContextChars, Len(Characters(previous.content))))

\* chapter 2 was generated when the file of chapter 1 held more than 1000
\* characters, and the writer was given exactly 1000
C20_Witness ==
    /\ last_chapter.dispatched = 1
    /\ last_chapter.chapter_number = 2
    /\ last_chapter.files_before.chapter_txt[1].exists
    /\ len(last_chapter.files_before.chapter_txt[1].content) > ContextChars
    /\ len(last_chapter.prompt.previous_context) = ContextChars

----------------------------------------------------------------------------
(* Properties of the operations that write the project, under SpecBook *)

\* a session entry is as it was, or was loaded from its file
KeptOrLoaded(after, before, file) ==
    \/ after = before
    \/ file.exists /\ after = strip(file.content)

\* the session's chapter list is as it was, or was loaded from chapters.json
ChaptersKeptOrLoaded ==
    \/ session'.chapters = session.chapters
    \/ files.chapters_json.exists /\ session'.chapters = files.chapters_json.content

\* a world operation leaves characters, outline, records and chapters alone
WorldFrame ==
    /\ files' = [files EXCEPT !.world_txt = files'.world_txt]
    /\ session' = [session EXCEPT !.world_theme = session'.world_theme]

\* a characters operation leaves world, outline, records and chapters alone
CharactersFrame ==
    /\ files' = [files EXCEPT !.characters_txt = files'.characters_txt]
    /\ session'.outline = session.outline
    /\ session'.chapters = session.chapters
    /\ KeptOrLoaded(session'.world_theme, session.world_theme, files.world_txt)

\* an outline operation leaves world, characters and every chapter text alone
OutlineFrame ==
    /\ files'.world_txt = files.world_txt
    /\ files'.characters_txt = files.characters_txt
    /\ files'.chapter_txt = files.chapter_txt
    /\ KeptOrLoaded(session'.world_theme, session.world_theme, files.world_txt)
    /\ KeptOrLoaded(session'.characters, session.characters, files.characters_txt)

\* an operation on chapter n leaves world, characters, outline, records and
\* every other chapter text alone
ChapterFrame(n) ==
    /\ files' = [files EXCEPT !.chapter_txt[n] = files'.chapter_txt[n]]
    /\ KeptOrLoaded(session'.world_theme, session.world_theme, files.world_txt)
    /\ KeptOrLoaded(session'.characters, session.characters, files.characters_txt)
    /\ KeptOrLoaded(session'.outline, session.outline, files.outline_txt)
    /\ ChaptersKeptOrLoaded

\* C21: each operation writes its own slot only.  A world save or finalize
\* changes nothing but world.txt and the session's world theme; a characters
\* save or finalize nothing but characters.txt and the session's characters;
\* an outline save or finalize leaves world.txt, characters.txt and every
\* chapter file as they were; generating or saving chapter n leaves every
\* file but chapter_n.txt as it was.  A session entry of another stage is
\* left alone or loaded from that stage's own file.
C21_OwnSlotOnly ==
    [][ /\ (save_world \/ finalize_world_stream \/ generate_end_world)
           => WorldFrame
        /\ (save_characters \/ finalize_characters_stream \/ generate_end_characters)
           => CharactersFrame
        /\ (save_outline \/ finalize_outline_stream \/ generate_end_outline)
           => OutlineFrame
        /\ chapter => ChapterFrame(last_chapter'.chapter_number)
        /\ save_chapter => \E n \in 0..MaxChapterNumber : ChapterFrame(n) ]_vars

\* chapter 2 was generated and written in a project that holds a world, the
\* characters, an outline, records and the text of chapter 1
C21_Witness ==
    /\ last_chapter.outcome = "generated"
    /\ last_chapter.chapter_number = 2
    /\ files.chapter_txt[2] # last_chapter.files_before.chapter_txt[2]
    /\ files.chapter_txt[1].exists
    /\ files.world_txt.exists
    /\ files.characters_txt.exists
    /\ files.outline_txt.exists
    /\ files.chapters_json.exists

----------------------------------------------------------------------------
(* Properties of the stage prerequisites *)

\* the world theme and the characters a request finds: the session's entry,
\* else the text of the file
WorldThemeSlot ==
    IF session.world_theme # <<>> THEN session.world_theme
    ELSE IF files.world_txt.exists THEN strip(files.world_txt.content) ELSE <<>>

CharactersSlot ==
    IF session.characters # <<>> THEN session.characters
    ELSE IF files.characters_txt.exists THEN strip(files.characters_txt.content)
    ELSE <<>>

\* the request is answered at once: no stream is opened and no file written
Refused == req' = req /\ files' = files

\* the outline half of C22: an outline request made while the world theme or
\* the characters are empty is refused
OutlineRequestsRefused ==
    [][ ( /\ outline_chat_stream \/ finalize_outline_stream
          /\ WorldThemeSlot = <<>> \/ CharactersSlot = <<>> )
        => Refused ]_vars

\* C22: a characters request made while the world theme is empty, and an
\* outline request made while the world theme or the characters are empty, is
\* refused: no generation stream is opened and no file is written.
C22_PrerequisitesChecked ==
    [][ /\ ( /\ characters_chat_stream \/ finalize_characters_stream
             /\ WorldThemeSlot = <<>> )
           => Refused
        /\ ( /\ outline_chat_stream \/ finalize_outline_stream
             /\ WorldThemeSlot = <<>> \/ CharactersSlot = <<>> )
           => Refused ]_vars

\* C23: a POST /chapter/n made while the world theme or the characters are
\* empty makes no generation call and writes no chapter.
C23_ChapterPrerequisitesChecked ==
    [][ ( /\ chapter
          /\ last_chapter'.method = "POST"
          /\ WorldThemeSlot = <<>> \/ CharactersSlot = <<>> )
        => ( /\ last_chapter'.dispatched = 0
             /\ last_chapter'.outcome \notin {"generated", "APIError"}
             /\ files' = files ) ]_vars

----------------------------------------------------------------------------
(* Further properties of parse_outline_to_chapters, under SpecParse *)

\* C24: a call of parse_outline_to_chapters changes no file of the project,
\* chapters.json included; its only effect is the list it returns.
C24_ParseWritesNothing ==
    [][ CallParse => files' = files ]_vars

\* the text between the end of header k and the start of the next header,
\* or the end of the text scanned
BodyOfHeader(k) ==
    Slice(OutlineText(arg_text), ScannedHeaders[k].end,
          IF k < Len(ScannedHeaders) THEN ScannedHeaders[k + 1].start
          ELSE Len(OutlineText(arg_text)))

NoHeaderRaises ==
    \A k \in 1..Len(ScannedHeaders) : ~IntRaises(ScannedHeaders[k].group1)

\* C25: the prompt of a record is the text between its header and the next
\* well-formed header (the end of the text for the last one), surrounding
\* whitespace aside; so it holds neither its own header or title nor any part
\* of another header.
C25_PromptIsBodyOfHeader ==
    (pc_parse = "returned" /\ NoHeaderRaises)
    => \A k \in 1..Len(ScannedHeaders) : \A i \in 1..Len(ret) :
          ( /\ FirstOccurrence(k)
            /\ str(ret[i].chapter_number) = Canon(ScannedHeaders[k].group1) )
          => strip(ret[i].prompt) = strip(BodyOfHeader(k))

----------------------------------------------------------------------------
(* Further properties of the web application, under Spec *)

\* C26: when a finalize stream has ended normally without a single delta, the
\* file of the stage is as it was when the request started and no completion
\* marker was sent.
C26_EmptyStreamKeepsArtifact ==
    ( /\ req.endpoint \in FinalizeEndpoints
      /\ req.pc = "done"
      /\ req.collected_content = <<>> )
    => ( /\ Artifact(files) = Artifact(req.files_at_start)
         /\ ~DoneSent )

\* C27: once an outline operation has completed, chapters.json holds
\* parse_outline_to_chapters of the text of outline.txt with the count the
\* latest completed operation declared.
C27_RecordsDerivedFromOutline ==
    last_outline.op # "none"
    => /\ files.outline_txt.exists
       /\ files.chapters_json =
              File(parse_outline_to_chapters(files.outline_txt.content,
                                             last_outline.num_chapters))

\* C28: when outline.json and chapters.json both exist, they hold the same
\* chapter records.
C28_StructuredFilesAgree ==
    (files.outline_json.exists /\ files.chapters_json.exists)
    => files.outline_json.content = files.chapters_json.content

----------------------------------------------------------------------------
(* Further properties of the chapter pages, under SpecChapter *)

\* C29: every chapter number that has a chapter file has a record in
\* chapters.json.
C29_ChapterFilesHaveRecords ==
    \A n \in 0..MaxChapterNumber :
        files.chapter_txt[n].exists => n \in RecordedNumbers(files)

----------------------------------------------------------------------------
(* The exception path of parse_outline_to_chapters, under SpecParse *)

\* C30: the list parse_outline_to_chapters returns is strictly ascending in
\* chapter_number for every text and every declared count, the runs in which
\* the loop raises and the except branch appends the stubs included.
C30_ReturnedListAscending ==
    pc_parse = "returned" => StrictlyAscending(ret)

====
